---- MODULE Spec2Model ----
(***************************************************************************)
(* Stock synchronisation scripts of Kirkidoo/Sync-Stock: main.py,          *)
(* sync_thibault.py and sync_motovan.py.  One run of a script pages the    *)
(* catalog's inventory levels of one location into product_map, asks the   *)
(* supplier for quantities, joins the two maps into updates and submits    *)
(* the updates to the catalog in batches.  The catalog and the supplier    *)
(* are the environment: every response is drawn from a small set.          *)
(***************************************************************************)
EXTENDS Integers, Sequences, FiniteSets, TLC

\* ---------------------------------------------------------------- bounds
\* Frames the interpreter allows run_query to nest before RecursionError.
RecursionLimit == 3
\* Pages the catalog serves at most for one location.
MaxPages == 2
\* Items of the large first page the catalog may serve.
BigPageSize == 101

\* ------------------------------------------------------ program constants
CHUNK_SIZE == 50
BATCH_SIZE == 100

Variants == {"main", "thibault", "motovan"}

TARGET_LOCATION_ID(v) ==
    IF v = "motovan" THEN "gid://shopify/Location/111098265917"
    ELSE "gid://shopify/Location/105008496957"

\* ------------------------------------------------------------ Python values
\* A string is a tuple of characters; an optional string is a record.
None == [nil |-> TRUE, str |-> <<>>]
Str(s) == [nil |-> FALSE, str |-> s]

\* str(x): the text of a value; str(None) is the four characters "None".
str(x) == IF x.nil THEN <<"N", "o", "n", "e">> ELSE x.str

\* Truth value of an optional string: None and "" are false.
Truthy(x) == ~x.nil /\ x.str # <<>>

IsSpace(c) == c \in {" ", "\t"}

RECURSIVE lstrip(_)
lstrip(s) == IF s # <<>> /\ IsSpace(Head(s)) THEN lstrip(Tail(s)) ELSE s

RECURSIVE rstrip(_)
rstrip(s) ==
    IF s # <<>> /\ IsSpace(s[Len(s)]) THEN rstrip(SubSeq(s, 1, Len(s) - 1)) ELSE s

\* str.strip(): drop the surrounding whitespace.
strip(s) == rstrip(lstrip(s))

\* A dict is the sequence of its <<key, value>> pairs in insertion order.
Keys(d) == {d[i][1] : i \in 1..Len(d)}
Has(d, k) == \E i \in 1..Len(d) : d[i][1] = k
Get(d, k) == d[CHOOSE i \in 1..Len(d) : d[i][1] = k][2]
\* d[k] = v: an existing key keeps its place, a new key is appended.
Put(d, k, v) ==
    IF Has(d, k)
    THEN [i \in 1..Len(d) |-> IF d[i][1] = k THEN <<k, v>> ELSE d[i]]
    ELSE Append(d, <<k, v>>)
\* list(d.keys())
KeyList(d) == [i \in 1..Len(d) |-> d[i][1]]

Min(a, b) == IF a < b THEN a ELSE b

\* ------------------------------------------------------------------ state
VARIABLES
    variant,        \* which script runs
    pc,             \* "paging", "fetching", "reconcile", "updating", "done", "aborted"
    product_map,    \* dict SKU -> inventory item id
    has_next_page,  \* pager loop condition
    cursor,         \* pager cursor: 0 is None, n the end cursor of page n
    depth,          \* nested run_query frames of the request in progress
    idx,            \* supplier chunks (motovan: SKUs) processed so far
    inventory_map,  \* dict SKU -> quantity
    updates,        \* list of update records
    sent,           \* batches submitted so far
    results,        \* what the updater printed for each batch
    exc,            \* exception raised by the last catalog call, "none" if it returned
    call,           \* network call made by the last step: "none", "page", "supplier", "write"
    nullLocation,   \* a page response had no data or a null location
    seen401,        \* a supplier response had status 401
    seenItems,      \* catalog items with a SKU of the pages read so far
    okEntries,      \* <<SKU, quantity>> entries returned by supplier chunks that succeeded
    allEntries,     \* <<key, quantity, hasSku>> entries returned by any supplier response
    rawSkus,        \* the SKU fields, as returned, of the supplier items that carried
                    \* a SKU and an integer quantity
    lastItem,       \* for each trimmed SKU, the id of the eligible catalog item read
                    \* last with it
    lastOk,         \* for each trimmed SKU, the quantity returned last with it by a
                    \* supplier request that succeeded
    chunkFailed,    \* the last supplier request failed
    requested,      \* the SKU lists of the supplier requests made, in order
    stock,          \* the catalog's quantity of the items written in the run
    writes,         \* the batch numbers of the write requests made
    applied,        \* the batch numbers of the write requests the catalog applied
    reapplied,      \* the batch numbers the catalog applied more than once
    answers         \* for each reported batch, whether the response it was reported
                    \* on held the result with no user errors and no errors

vars == <<variant, pc, product_map, has_next_page, cursor, depth, idx,
          inventory_map, updates, sent, results, exc, call, nullLocation,
          seen401, seenItems, okEntries, allEntries, rawSkus, lastItem, lastOk,
          chunkFailed, requested,
          stock, writes, applied, reapplied, answers>>

\* The catalog's side of the writes.
catalog == <<stock, writes, applied, reapplied, answers>>

\* ------------------------------------------------------------- the catalog
\* The quantity the catalog holds of item id when a run begins: the items
\* begin with different quantities, 0 among them.
StartQuantity(id) == id % 4

Item(id, tracked, hasVariant, sku) ==
    [id |-> id, tracked |-> tracked, hasVariant |-> hasVariant, sku |-> sku]

\* Items a page may carry.
CatalogItems == {
    Item(1, TRUE, TRUE, Str(<<"A">>)),
    Item(2, TRUE, TRUE, Str(<<" ", "A", " ">>)),
    Item(3, FALSE, TRUE, Str(<<"B">>)),
    Item(4, TRUE, TRUE, Str(<<>>)),
    Item(5, TRUE, FALSE, None),
    Item(6, TRUE, TRUE, None),
    Item(7, TRUE, TRUE, Str(<<"a">>)),
    Item(8, TRUE, TRUE, Str(<<"N", "o", "n", "e">>)) }

Digit == <<"0", "1", "2", "3", "4", "5", "6", "7", "8", "9">>
\* The SKU of the i-th item of the large page: i in three decimal digits.
BigSku(i) ==
    <<Digit[((i \div 100) % 10) + 1], Digit[((i \div 10) % 10) + 1], Digit[(i % 10) + 1]>>
BigEdges == [i \in 1..BigPageSize |-> Item(100 + i, TRUE, TRUE, Str(BigSku(i)))]

\* The inventory item ids of the catalog.
ItemIds == {it.id : it \in CatalogItems} \cup {BigEdges[i].id : i \in 1..BigPageSize}

SmallEdges == {<<>>} \cup {<<it>> : it \in CatalogItems}

\* Responses of the catalog endpoint to the inventory-levels query.
PageResponse(status, errors, data, edges, hasNextPage) ==
    [status |-> status, errors |-> errors, data |-> data, edges |-> edges,
     hasNextPage |-> hasNextPage]


\* What the catalog may answer to the page request made with cursor cur.  A
\* small catalog has up to MaxPages pages of at most one item; the large
\* catalog has the one large page, and is not served to the per-SKU fetcher.
PageResponses(v, cur) ==
    {PageResponse(500, "none", "absent", <<>>, FALSE),
     PageResponse(200, "THROTTLED", "absent", <<>>, FALSE),
     PageResponse(200, "other", "absent", <<>>, FALSE),
     PageResponse(200, "none", "absent", <<>>, FALSE),
     PageResponse(200, "none", "nolocation", <<>>, FALSE)}
    \cup {PageResponse(200, "none", "page", e, h) :
            e \in SmallEdges, h \in (IF cur + 1 < MaxPages THEN BOOLEAN ELSE {FALSE})}
    \cup (IF cur = 0 /\ v # "motovan"
          THEN {PageResponse(200, "none", "page", BigEdges, FALSE)} ELSE {})

\* ---------------------------------------------------------------- run_query
Outcome(out, e) == [out |-> out, exc |-> e]

\* main.py: any top-level errors raise.
run_query_main(r) ==
    IF r.status # 200 THEN Outcome("raise", "Query failed")
    ELSE IF r.errors = "THROTTLED" THEN Outcome("raise", "GraphQL Errors: THROTTLED")
    ELSE IF r.errors # "none" THEN Outcome("raise", "GraphQL Errors")
    ELSE Outcome("return", "none")

\* sync_thibault.py, sync_motovan.py: THROTTLED re-enters run_query; d frames of
\* it are already nested, and the interpreter raises RecursionError when the
\* call stack is exhausted.  Other errors are printed and the data returned.
run_query_sync(r, d) ==
    IF r.status # 200 THEN Outcome("raise", "GraphQL failed")
    ELSE IF r.errors = "THROTTLED"
         THEN IF d + 1 < RecursionLimit THEN Outcome("retry", "none")
              ELSE Outcome("raise", "RecursionError")
    ELSE Outcome("return", "none")

run_query(v, r, d) == IF v = "main" THEN run_query_main(r) ELSE run_query_sync(r, d)

\* The text s without the whitespace around it.
Trim(s) ==
    LET inner == {i \in 1..Len(s) : ~IsSpace(s[i])} IN
    IF inner = {} THEN <<>>
    ELSE SubSeq(s, CHOOSE i \in inner : \A j \in inner : i <= j,
                   CHOOSE i \in inner : \A j \in inner : i >= j)

\* The last value of each key of a sequence of <<key, value>> pairs.
LastOf(pairs) ==
    [k \in {pairs[i][1] : i \in 1..Len(pairs)} |->
        LET at == {i \in 1..Len(pairs) : pairs[i][1] = k}
        IN  pairs[CHOOSE i \in at : \A j \in at : i >= j][2]]

\* The function f with the values of g where g has one.
Override(f, g) ==
    [k \in (DOMAIN f) \cup (DOMAIN g) |-> IF k \in DOMAIN g THEN g[k] ELSE f[k]]

\* ------------------------------------------------------------------ pager
\* sync_thibault.py, sync_motovan.py: tracked, with a variant and a true SKU.
eligible_sync(item) == item.tracked /\ item.hasVariant /\ Truthy(item.sku)

\* main.py: with a variant and a true SKU.
eligible_main(item) == item.hasVariant /\ Truthy(item.sku)

\* The item carries a non-empty SKU.
HasSku(item) == item.hasVariant /\ Truthy(item.sku)

eligible(v, item) == IF v = "main" THEN eligible_main(item) ELSE eligible_sync(item)

\* The <<trimmed SKU, id>> pairs of a page's eligible items, in the page's order.
CatalogPairs(v, edges) ==
    LET el == SelectSeq(edges, LAMBDA it : eligible(v, it)) IN
    [i \in 1..Len(el) |-> <<Trim(el[i].sku.str), el[i].id>>]

\* A pager that keys the map by the SKU as the catalog returned it.
add_item_raw(v, map, item) ==
    IF eligible(v, item) THEN Put(map, str(item.sku), item.id) ELSE map

\* The body of the loop over the edges of one page.
add_item(v, map, item) ==
    IF eligible(v, item) THEN Put(map, strip(str(item.sku)), item.id) ELSE map

\* The loop over edges[lo..hi], run as its first half followed by its second.
RECURSIVE add_edges(_, _, _, _, _)
add_edges(v, map, edges, lo, hi) ==
    IF lo > hi THEN map
    ELSE IF lo = hi THEN add_item(v, map, edges[lo])
    ELSE LET mid == (lo + hi) \div 2
             first == add_edges(v, map, edges, lo, mid)
         IN  IF Len(first) >= 0 THEN add_edges(v, first, edges, mid + 1, hi) ELSE first

add_page(v, map, edges) == add_edges(v, map, edges, 1, Len(edges))

\* A response without data or with a null location: main.py raises,
\* the other scripts print "Location not found." and leave the loop.
no_location(v) == IF v = "main" THEN "raise" ELSE "break"

\* A main() that goes on to the fetcher with any map.
after_pager_always(map) == "fetching"

\* Where main() goes with the pager's map: an empty map ends the run.
after_pager(map) == IF map = <<>> THEN "done" ELSE "fetching"

FetchPage ==
    /\ pc = "paging"
    /\ \E r \in PageResponses(variant, cursor) :
         LET q == run_query(variant, r, depth) IN
         /\ call' = "page"
         /\ CASE q.out = "retry" ->
                   /\ depth' = depth + 1
                   /\ exc' = "none"
                   /\ UNCHANGED <<pc, product_map, has_next_page, cursor,
                                  nullLocation, seenItems, lastItem>>
              [] q.out = "raise" ->
                   /\ depth' = 0
                   /\ exc' = q.exc
                   /\ pc' = "aborted"
                   /\ UNCHANGED <<product_map, has_next_page, cursor,
                                  nullLocation, seenItems, lastItem>>
              [] q.out = "return" /\ r.data # "page" ->
                   /\ depth' = 0
                   /\ nullLocation' = TRUE
                   /\ IF no_location(variant) = "raise"
                      THEN pc' = "aborted" /\ exc' = "Location not found"
                      ELSE pc' = after_pager(product_map) /\ exc' = "none"
                   /\ UNCHANGED <<product_map, has_next_page, cursor, seenItems,
                                  lastItem>>
              [] q.out = "return" /\ r.data = "page" ->
                   /\ depth' = 0
                   /\ exc' = "none"
                   /\ product_map' = add_page(variant, product_map, r.edges)
                   /\ has_next_page' = r.hasNextPage
                   /\ cursor' = cursor + 1
                   /\ lastItem' = Override(lastItem, LastOf(CatalogPairs(variant, r.edges)))
                   /\ seenItems' = seenItems \cup
                        {r.edges[i] : i \in {j \in 1..Len(r.edges) : HasSku(r.edges[j])}}
                   /\ pc' = IF r.hasNextPage THEN "paging" ELSE after_pager(product_map')
                   /\ UNCHANGED nullLocation
    /\ UNCHANGED <<variant, idx, inventory_map, updates, sent, results, seen401,
                   okEntries, allEntries, rawSkus, lastOk, chunkFailed, requested,
                   catalog>>


\* ------------------------------------------------------------ the supplier
\* The value field of a quantity object: absent/null, an integer, or text
\* that int() rejects.
VNone == [kind |-> "none", n |-> 0]
VInt(n) == [kind |-> "int", n |-> n]
VBad == [kind |-> "bad", n |-> 0]

\* The quantity field of an item: absent, null, a bare number, or an object.
QAbsent == [kind |-> "absent", val |-> VNone]
QNull == [kind |-> "null", val |-> VNone]
QScalar == [kind |-> "scalar", val |-> VNone]
QDict(v) == [kind |-> "dict", val |-> v]

SItem(isDict, sku, quantity) == [isDict |-> isDict, sku |-> sku, quantity |-> quantity]

\* Item lists a Thibault response may carry; echo lists are added per chunk.
ItemLists == {
    <<>>,
    <<SItem(TRUE, Str(<<"A">>), QDict(VInt(0)))>>,
    <<SItem(TRUE, Str(<<" ", "A">>), QDict(VInt(2)))>>,
    <<SItem(TRUE, Str(<<"A">>), QDict(VInt(1))), SItem(TRUE, Str(<<"A", " ">>), QDict(VInt(2)))>>,
    <<SItem(TRUE, Str(<<"B">>), QDict(VInt(0)))>>,
    <<SItem(TRUE, None, QDict(VInt(1)))>>,
    <<SItem(TRUE, Str(<<"A">>), QAbsent), SItem(TRUE, Str(<<" ", " ">>), QDict(VInt(1)))>>,
    <<SItem(TRUE, Str(<<"a">>), QDict(VNone))>>,
    <<SItem(TRUE, Str(<<"A">>), QDict(VInt(2))), SItem(TRUE, Str(<<"a">>), QDict(VBad))>>,
    <<SItem(TRUE, Str(<<"a">>), QScalar), SItem(TRUE, Str(<<"A">>), QDict(VInt(0)))>>,
    <<SItem(TRUE, Str(<<"a">>), QNull)>>,
    <<SItem(FALSE, None, QAbsent), SItem(TRUE, Str(<<"C">>), QDict(VInt(2)))>> }

\* One item per requested SKU, each with quantity q.
Echo(chunk, q) == [i \in 1..Len(chunk) |-> SItem(TRUE, Str(chunk[i]), QDict(VInt(q)))]

\* The items field of a JSON object: absent, null, one object, or a list.
Items(kind, list) == [kind |-> kind, list |-> list]

SResponse(kind, status, json, isDict, items) ==
    [kind |-> kind, status |-> status, json |-> json, isDict |-> isDict, items |-> items]

\* What the Thibault endpoint may answer to the request for one chunk.
ChunkResponses(chunk) ==
    {SResponse("exception", 0, FALSE, FALSE, Items("absent", <<>>)),
     SResponse("http", 401, FALSE, FALSE, Items("absent", <<>>)),
     SResponse("http", 500, FALSE, FALSE, Items("absent", <<>>))}
    \cup {SResponse("http", st, FALSE, FALSE, Items("absent", <<>>)) : st \in {200, 400}}
    \cup {SResponse("http", st, TRUE, FALSE, Items("absent", <<>>)) : st \in {200, 400}}
    \cup {SResponse("http", st, TRUE, TRUE, Items(k, <<>>)) :
            st \in {200, 400}, k \in {"absent", "null"}}
    \cup {SResponse("http", st, TRUE, TRUE,
                    Items("dict", <<SItem(TRUE, Str(<<"A">>), QDict(VInt(1)))>>)) :
            st \in {200, 400}}
    \cup {SResponse("http", st, TRUE, TRUE, Items("list", l)) :
            st \in {200, 400}, l \in ItemLists \cup {Echo(chunk, 1)}}

\* The value of one warehouse's quantity field: an integer, absent, or text.
WAbsent == [kind |-> "absent", n |-> 0]

\* What the Motovan endpoint may answer to the request for one part number:
\* the items field stands for inventoryLvl, each entry for one warehouse.
PartResponses ==
    {SResponse("exception", 0, FALSE, FALSE, Items("absent", <<>>)),
     SResponse("http", 401, FALSE, FALSE, Items("absent", <<>>)),
     SResponse("http", 500, FALSE, FALSE, Items("absent", <<>>)),
     SResponse("http", 400, FALSE, FALSE, Items("absent", <<>>)),
     SResponse("http", 200, FALSE, FALSE, Items("absent", <<>>)),
     SResponse("http", 200, TRUE, FALSE, Items("absent", <<>>)),
     SResponse("http", 200, TRUE, TRUE, Items("absent", <<>>))}
    \cup {SResponse("http", 200, TRUE, TRUE, Items("list", l)) :
            l \in {<<>>, <<VInt(1), VInt(2)>>, <<VInt(1), WAbsent>>, <<VBad>>}}


\* ------------------------------------------------- get_thibault_inventory,
\* ------------------------------------------------- get_supplier_inventory
\* A chunking whose slices end one place too far: sku_list[i:i + CHUNK_SIZE + 1].
chunks_overlap(sku_list) ==
    [k \in 1..((Len(sku_list) + CHUNK_SIZE - 1) \div CHUNK_SIZE) |->
        SubSeq(sku_list, (k - 1) * CHUNK_SIZE + 1, Min(k * CHUNK_SIZE + 1, Len(sku_list)))]

\* chunks = [sku_list[i:i + CHUNK_SIZE] for i in range(0, len(sku_list), CHUNK_SIZE)]
chunks(sku_list) ==
    [k \in 1..((Len(sku_list) + CHUNK_SIZE - 1) \div CHUNK_SIZE) |->
        SubSeq(sku_list, (k - 1) * CHUNK_SIZE + 1, Min(k * CHUNK_SIZE, Len(sku_list)))]

\* Statuses whose payload is parsed.
accepted_status(st) == st \in {200, 400}

Skip == [kind |-> "skip", sku |-> <<>>, qty |-> 0]
Raise == [kind |-> "raise", sku |-> <<>>, qty |-> 0]
Set(sku, qty) == [kind |-> "set", sku |-> sku, qty |-> qty]

\* A fetcher that tests the quantity for truth, which drops a quantity of 0.
store_entry_truthy(it) ==
    LET sku == strip(str(it.sku))
        qty == it.quantity.val
    IN  IF sku = <<>> \/ qty.kind = "none" \/ (qty.kind = "int" /\ qty.n = 0) THEN Skip
        ELSE IF qty.kind = "bad" THEN Raise
        ELSE Set(sku, qty.n)

\* The SKU and quantity test both scripts end with, and int(qty).
store_entry(it) ==
    LET sku == strip(str(it.sku))
        qty == it.quantity.val
    IN  IF sku = <<>> \/ qty.kind = "none" THEN Skip
        ELSE IF qty.kind = "bad" THEN Raise
        ELSE Set(sku, qty.n)

\* sync_thibault.py: item.get('quantity', {}).get('value') raises on a
\* quantity that is no object.
item_outcome_thibault(it) ==
    IF ~it.isDict THEN Skip
    ELSE IF it.quantity.kind \in {"null", "scalar"} THEN Raise
    ELSE store_entry(it)

\* main.py: a quantity that is no object is passed over.
item_outcome_main(it) ==
    IF ~it.isDict THEN Skip
    ELSE IF it.quantity.kind \in {"null", "scalar"} THEN Skip
    ELSE store_entry(it)

item_outcome(v, it) ==
    IF v = "main" THEN item_outcome_main(it) ELSE item_outcome_thibault(it)

\* The body of the loop over the items of one payload: acc.raised says that
\* an error has ended the loop; what it stored before the error stays.
process_item(v, acc, it) ==
    LET o == item_outcome(v, it) IN
    IF acc.raised THEN acc
    ELSE IF o.kind = "raise" THEN [map |-> acc.map, raised |-> TRUE]
    ELSE IF o.kind = "set" THEN [map |-> Put(acc.map, o.sku, o.qty), raised |-> FALSE]
    ELSE acc

\* The loop over items[lo..hi], run as its first half followed by its second.
RECURSIVE process_range(_, _, _, _, _)
process_range(v, acc, items, lo, hi) ==
    IF lo > hi THEN acc
    ELSE IF lo = hi THEN process_item(v, acc, items[lo])
    ELSE LET mid == (lo + hi) \div 2
             first == process_range(v, acc, items, lo, mid)
         IN  IF first.raised THEN first ELSE process_range(v, first, items, mid + 1, hi)

process_items(v, map, items) ==
    process_range(v, [map |-> map, raised |-> FALSE], items, 1, Len(items)).map

\* A fetcher that starts the mapping afresh when a chunk fails.
chunk_skipped_discards(map) == <<>>

\* The mapping after a chunk that is skipped.
chunk_skipped(map) == map

\* The mapping after the response to one chunk.
process_chunk(v, map, r) ==
    IF r.kind = "exception" THEN chunk_skipped(map)
    ELSE IF ~accepted_status(r.status) THEN chunk_skipped(map)
    ELSE IF ~r.json \/ ~r.isDict \/ r.items.kind = "null" THEN chunk_skipped(map)
    ELSE process_items(v, map, r.items.list)

\* A fetcher that leaves its loop when a request raises.
next_chunk_stops(r) == r.kind # "exception"

\* Whether the loops go on to the next chunk after response r.
next_chunk(r) == TRUE

\* ---------------------------------------------------- get_motovan_inventory
RECURSIVE Sum(_)
Sum(ws) == IF ws = <<>> THEN 0 ELSE Head(ws).n + Sum(Tail(ws))

\* The mapping after the response to the request for one part number.
process_part(map, sku, r) ==
    IF r.kind = "exception" THEN map
    ELSE IF r.status = 200
         THEN IF ~r.json \/ ~r.isDict THEN map
              ELSE IF \E i \in 1..Len(r.items.list) : r.items.list[i].kind = "bad" THEN map
              ELSE Put(map, sku, Sum(r.items.list))
    ELSE IF r.status = 400 THEN Put(map, sku, 0)
    ELSE map

\* ------------------------------------------- what the supplier returned
\* An item that carries a SKU that is not blank and a quantity object with an
\* integer value.
IsValid(it) ==
    /\ it.isDict
    /\ ~it.sku.nil
    /\ strip(it.sku.str) # <<>>
    /\ it.quantity.kind = "dict"
    /\ it.quantity.val.kind = "int"

\* The <<SKU, quantity>> entries of a payload's valid items.
ValidEntries(items) ==
    {<<strip(items[i].sku.str), items[i].quantity.val.n>> :
        i \in {j \in 1..Len(items) : IsValid(items[j])}}

\* Every <<key, quantity, hasSku>> a payload's items carry: hasSku is FALSE
\* for an item whose SKU field is absent or null, whose key is the text of None.
AllEntries(items) ==
    {<<strip(str(items[i].sku)), items[i].quantity.val.n, ~items[i].sku.nil>> :
        i \in {j \in 1..Len(items) :
                 /\ items[j].isDict
                 /\ strip(str(items[j].sku)) # <<>>
                 /\ items[j].quantity.kind = "dict"
                 /\ items[j].quantity.val.kind = "int"}}

\* The SKU fields, as returned, of a payload's items that carry a SKU and a
\* quantity object with an integer value.
RawSkus(items) ==
    {items[i].sku.str :
        i \in {j \in 1..Len(items) :
                 /\ items[j].isDict
                 /\ ~items[j].sku.nil
                 /\ items[j].quantity.kind = "dict"
                 /\ items[j].quantity.val.kind = "int"}}

\* The <<trimmed SKU, quantity>> pairs of a payload's valid items, in the
\* payload's order.
ValidPairs(items) ==
    LET ok == SelectSeq(items, IsValid) IN
    [i \in 1..Len(ok) |-> <<Trim(ok[i].sku.str), ok[i].quantity.val.n>>]

\* The pairs of a set of at most one pair, as a sequence.
SetToPairs(set) == IF set = {} THEN <<>> ELSE <<CHOOSE e \in set : TRUE>>

HasPayload(r) == r.kind = "http" /\ r.status \in {200, 400} /\ r.json /\ r.isDict

\* The chunk's response was informative and processed to its end.
Succeeded(v, r) ==
    /\ HasPayload(r)
    /\ r.items.kind # "null"
    /\ \A i \in 1..Len(r.items.list) : item_outcome(v, r.items.list[i]).kind # "raise"

\* Motovan: the part's quantity, returned when the payload lists the
\* warehouses and every entry is a number.
ReportedPart(sku, r) ==
    IF /\ r.kind = "http" /\ r.status = 200 /\ r.json /\ r.isDict
       /\ r.items.kind = "list"
       /\ \A i \in 1..Len(r.items.list) : r.items.list[i].kind # "bad"
    THEN {<<sku, Sum(r.items.list)>>} ELSE {}

\* if not sku_list: return {} -- the fetcher asks nothing for an empty list.
nothing_to_fetch(sku_list) == sku_list = <<>>

FetchChunk ==
    /\ pc = "fetching"
    /\ variant # "motovan"
    /\ LET cs == chunks(KeyList(product_map)) IN
       IF nothing_to_fetch(KeyList(product_map))
       THEN /\ pc' = "reconcile"
            /\ call' = "none"
            /\ UNCHANGED <<inventory_map, idx, seen401, allEntries, okEntries,
                           rawSkus, lastOk, chunkFailed, requested>>
       ELSE /\ \E r \in ChunkResponses(cs[idx + 1]) :
                 /\ inventory_map' = process_chunk(variant, inventory_map, r)
                 /\ idx' = idx + 1
                 /\ pc' = IF next_chunk(r) /\ idx' < Len(cs) THEN "fetching" ELSE "reconcile"
                 /\ seen401' = (seen401 \/ (r.kind = "http" /\ r.status = 401))
                 /\ allEntries' = allEntries
                        \cup (IF HasPayload(r) THEN AllEntries(r.items.list) ELSE {})
                 /\ okEntries' = okEntries
                        \cup (IF Succeeded(variant, r) THEN ValidEntries(r.items.list) ELSE {})
                 /\ lastOk' = IF Succeeded(variant, r)
                              THEN Override(lastOk, LastOf(ValidPairs(r.items.list)))
                              ELSE lastOk
                 /\ rawSkus' = rawSkus
                        \cup (IF HasPayload(r) THEN RawSkus(r.items.list) ELSE {})
                 /\ chunkFailed' = ~Succeeded(variant, r)
            /\ requested' = Append(requested, cs[idx + 1])
            /\ call' = "supplier"
    /\ UNCHANGED <<variant, product_map, has_next_page, cursor, depth, updates,
                   sent, results, exc, nullLocation, seenItems, lastItem, catalog>>

FetchPart ==
    /\ pc = "fetching"
    /\ variant = "motovan"
    /\ LET sku_list == KeyList(product_map) IN
       IF nothing_to_fetch(sku_list)
       THEN /\ pc' = "reconcile"
            /\ call' = "none"
            /\ UNCHANGED <<inventory_map, idx, seen401, allEntries, okEntries,
                           rawSkus, lastOk, chunkFailed, requested>>
       ELSE /\ \E r \in PartResponses :
                 /\ inventory_map' = process_part(inventory_map, sku_list[idx + 1], r)
                 /\ idx' = idx + 1
                 /\ pc' = IF idx' < Len(sku_list) THEN "fetching" ELSE "reconcile"
                 /\ seen401' = (seen401 \/ (r.kind = "http" /\ r.status = 401))
                 /\ allEntries' = allEntries
                        \cup {<<e[1], e[2], TRUE>> : e \in ReportedPart(sku_list[idx + 1], r)}
                 /\ okEntries' = okEntries \cup ReportedPart(sku_list[idx + 1], r)
                 /\ chunkFailed' = (ReportedPart(sku_list[idx + 1], r) = {})
                 /\ lastOk' = Override(lastOk,
                        LastOf(SetToPairs(ReportedPart(sku_list[idx + 1], r))))
                 /\ UNCHANGED rawSkus
            /\ requested' = Append(requested, <<sku_list[idx + 1]>>)
            /\ call' = "supplier"
    /\ UNCHANGED <<variant, product_map, has_next_page, cursor, depth, updates,
                   sent, results, exc, nullLocation, seenItems, lastItem, catalog>>


\* ------------------------------------------------------ main(): the join
\* for sku, qty in supplier_stock.items(): if sku in shopify_map: append.
reconcile(shopify_map, supplier_stock, location_id) ==
    LET matched == SelectSeq(supplier_stock, LAMBDA e : Has(shopify_map, e[1])) IN
    [i \in 1..Len(matched) |->
        [inventoryItemId |-> Get(shopify_map, matched[i][1]),
         locationId |-> location_id,
         quantity |-> matched[i][2]]]

\* The supplier SKUs the join loop records as unmatched: the loop has no
\* branch for a SKU that is not in shopify_map, so it records none.
unmatched(shopify_map, supplier_stock) == {}

\* An updater that sends a request for an empty list as well.
after_join_always(upd) == "updating"

\* bulk_update_inventory returns at once on an empty list.
after_join(upd) == IF upd = <<>> THEN "done" ELSE "updating"

Reconcile ==
    /\ pc = "reconcile"
    /\ updates' = reconcile(product_map, inventory_map, TARGET_LOCATION_ID(variant))
    /\ pc' = after_join(updates')
    /\ call' = "none"
    /\ UNCHANGED <<variant, product_map, has_next_page, cursor, depth, idx,
                   inventory_map, sent, results, exc, nullLocation, seen401,
                   seenItems, okEntries, allEntries, rawSkus, lastItem, lastOk,
                   chunkFailed, requested,
                   catalog>>

\* ---------------------------------------------------- bulk_update_inventory
WriteResponse(status, errors, data, userErrors) ==
    [status |-> status, errors |-> errors, data |-> data, userErrors |-> userErrors]

\* What the catalog may answer to the inventorySetQuantities mutation: data
\* is absent, null, holds a null result ("noresult") or the result.
WriteResponses ==
    {WriteResponse(500, "none", "absent", FALSE),
     WriteResponse(200, "THROTTLED", "absent", FALSE),
     WriteResponse(200, "other", "absent", FALSE),
     WriteResponse(200, "other", "null", FALSE),
     WriteResponse(200, "none", "absent", FALSE),
     WriteResponse(200, "none", "null", FALSE),
     WriteResponse(200, "none", "noresult", FALSE),
     WriteResponse(200, "none", "result", FALSE),
     WriteResponse(200, "none", "result", TRUE)}

\* sync_thibault.py, sync_motovan.py: the chain of .get() raises on a null
\* data or result, and finds no user errors when data is absent.
report_sync(r) ==
    IF r.data = "absent" THEN "success"
    ELSE IF r.data \in {"null", "noresult"} THEN "failed"
    ELSE IF r.userErrors THEN "errors" ELSE "success"

\* main.py: prints nothing unless the result is there.
report_main(r) ==
    IF r.data # "result" THEN "silent"
    ELSE IF r.userErrors THEN "errors" ELSE "success"

report(v, r) == IF v = "main" THEN report_main(r) ELSE report_sync(r)

\* batch = updates[i:i + BATCH_SIZE], the n-th batch counted from 0
batch_of(upd, n) == SubSeq(upd, n * BATCH_SIZE + 1, Min((n + 1) * BATCH_SIZE, Len(upd)))

\* The write the updater asks for: inventorySetQuantities with
\* ignoreCompareQuantity, the named quantity set to the record's quantity.
mutation_adjusts == "adjust"

mutation == "set"

\* The catalog's quantity of item i: the one written last, or the one the
\* item began with.
Quantity(stk, i) == IF i \in DOMAIN stk THEN stk[i] ELSE StartQuantity(i)

\* The catalog applying one write request to its quantities: a set request
\* overwrites the quantity of each item of the batch, an adjust request adds
\* to it; the other items keep theirs.
apply_write(kind, stk, batch) ==
    LET ids == {batch[j].inventoryItemId : j \in 1..Len(batch)} IN
    [i \in (DOMAIN stk) \cup ids |->
        IF i \in ids
        THEN LET j == CHOOSE j \in 1..Len(batch) : batch[j].inventoryItemId = i
             IN  IF kind = "set" THEN batch[j].quantity
                 ELSE Quantity(stk, i) + batch[j].quantity
        ELSE stk[i]]

\* The response holds the result of the write, without user errors and
\* without top-level errors.
Clean(r) == r.status = 200 /\ r.errors = "none" /\ r.data = "result" /\ ~r.userErrors

\* Whether the catalog applied the request it answered with r: it did when it
\* returns the result without user errors; a request answered with a server
\* error or a throttle signal may have been applied or not.
Applied(r) ==
    IF Clean(r) THEN {TRUE}
    ELSE IF r.status # 200 \/ r.errors = "THROTTLED" THEN BOOLEAN
    ELSE {FALSE}

\* An updater that gives up after a batch that failed.
after_batch_gives_up(res, n, upd) ==
    IF res # "failed" /\ n * BATCH_SIZE < Len(upd) THEN "updating" ELSE "done"

\* for i in range(0, len(updates), BATCH_SIZE): after n batches, whatever
\* the last one's result res, the loop goes on while records are left.
after_batch(res, n, upd) == IF n * BATCH_SIZE < Len(upd) THEN "updating" ELSE "done"

SubmitBatch ==
    /\ pc = "updating"
    /\ \E r \in WriteResponses :
         LET q == run_query(variant, r, depth) IN
         /\ writes' = writes \cup {sent}
         /\ \E a \in Applied(r) :
              IF a
              THEN /\ stock' = apply_write(mutation, stock, batch_of(updates, sent))
                   /\ applied' = applied \cup {sent}
                   /\ reapplied' = reapplied \cup (applied \cap {sent})
              ELSE UNCHANGED <<stock, applied, reapplied>>
         /\ CASE q.out = "retry" ->
                   /\ depth' = depth + 1
                   /\ exc' = "none"
                   /\ UNCHANGED <<pc, sent, results, answers>>
              [] q.out = "raise" ->
                   /\ depth' = 0
                   /\ exc' = q.exc
                   /\ results' = Append(results, "failed")
                   /\ answers' = Append(answers, Clean(r))
                   /\ sent' = sent + 1
                   /\ pc' = after_batch("failed", sent', updates)
              [] q.out = "return" ->
                   /\ depth' = 0
                   /\ exc' = IF report(variant, r) = "failed" THEN "AttributeError" ELSE "none"
                   /\ results' = Append(results, report(variant, r))
                   /\ answers' = Append(answers, Clean(r))
                   /\ sent' = sent + 1
                   /\ pc' = after_batch(report(variant, r), sent', updates)
    /\ call' = "write"
    /\ UNCHANGED <<variant, product_map, has_next_page, cursor, idx, inventory_map,
                   updates, nullLocation, seen401, seenItems, okEntries, allEntries,
                   rawSkus, lastItem, lastOk, chunkFailed, requested>>

\* ------------------------------------------------------------ specification
Init ==
    /\ variant \in Variants
    /\ pc = "paging"
    /\ product_map = <<>>
    /\ has_next_page = TRUE
    /\ cursor = 0
    /\ depth = 0
    /\ idx = 0
    /\ inventory_map = <<>>
    /\ updates = <<>>
    /\ sent = 0
    /\ results = <<>>
    /\ exc = "none"
    /\ call = "none"
    /\ nullLocation = FALSE
    /\ seen401 = FALSE
    /\ seenItems = {}
    /\ lastItem = [k \in {} |-> 0]
    /\ okEntries = {}
    /\ allEntries = {}
    /\ rawSkus = {}
    /\ lastOk = [k \in {} |-> 0]
    /\ chunkFailed = FALSE
    /\ requested = <<>>
    /\ stock = [i \in {} |-> 0]
    /\ writes = {}
    /\ applied = {}
    /\ reapplied = {}
    /\ answers = <<>>

Next == FetchPage \/ FetchChunk \/ FetchPart \/ Reconcile \/ SubmitBatch

Spec == Init /\ [][Next]_vars

\* The chunked fetchers called with the map of a catalog of n items, for
\* every n up to the size of the large page.
InitChunks ==
    /\ variant \in {"main", "thibault"}
    /\ pc = "fetching"
    /\ \E n \in 1..BigPageSize :
         /\ product_map = [i \in 1..n |-> <<BigSku(i), BigEdges[i].id>>]
         /\ seenItems = {BigEdges[i] : i \in 1..n}
         /\ lastItem = [k \in {BigSku(i) : i \in 1..n} |->
                           BigEdges[CHOOSE i \in 1..n : BigSku(i) = k].id]
    /\ has_next_page = FALSE
    /\ cursor = 1
    /\ depth = 0
    /\ idx = 0
    /\ inventory_map = <<>>
    /\ updates = <<>>
    /\ sent = 0
    /\ results = <<>>
    /\ exc = "none"
    /\ call = "page"
    /\ nullLocation = FALSE
    /\ seen401 = FALSE
    /\ okEntries = {}
    /\ allEntries = {}
    /\ rawSkus = {}
    /\ lastOk = [k \in {} |-> 0]
    /\ chunkFailed = FALSE
    /\ requested = <<>>
    /\ stock = [i \in {} |-> 0]
    /\ writes = {}
    /\ applied = {}
    /\ reapplied = {}
    /\ answers = <<>>

SpecChunks == InitChunks /\ [][FetchChunk]_vars


\* ----------------------------------------------------------------- claims
\* Supplier requests a fetch over the SKUs of map makes: one per chunk, and
\* one per SKU in sync_motovan.py.
Requests(v, map) == IF v = "motovan" THEN Len(map) ELSE Len(chunks(KeyList(map)))

\* The fetcher has returned the quantity mapping to main().
FetchReturned == pc \in {"reconcile", "updating"} \/ (pc = "done" /\ idx > 0)

\* C1: a request the catalog answers with THROTTLED is retried up to a fixed
\* maximum of the program and then given up as failed, the run moving on: the
\* retrying never goes on until the interpreter's call stack is exhausted.
C1_RetryMaximum == exc # "RecursionError"

\* C2: once a page response had no data or a null location, no supplier
\* request and no catalog write is issued in the run.
C2_NullLocationAborts == ~(nullLocation /\ call \in {"supplier", "write"})

\* C3: a run is never aborted by a throttle signal of the catalog, neither by
\* the THROTTLED answer itself nor by the retries it causes.
C3_ThrottleNeverAborts ==
    pc = "aborted" => exc \notin {"GraphQL Errors: THROTTLED", "RecursionError"}

C5_AbortOn401 == [][seen401 => call' \notin {"supplier", "write"}]_vars

\* C6: every update record carries a quantity the supplier returned in this
\* run under the SKU of the record's catalog item: no quantity is inferred.
C6_NoInferredQuantity ==
    \A i \in 1..Len(updates) :
        \E e \in allEntries :
            /\ Has(product_map, e[1])
            /\ Get(product_map, e[1]) = updates[i].inventoryItemId
            /\ e[2] = updates[i].quantity

\* The SKUs of both maps.
Matched == Keys(product_map) \cap Keys(inventory_map)

\* C7: after the join the updates are exactly one record per SKU of both
\* maps (the item's id, the run's location, the supplier's quantity), and the
\* unmatched set is exactly the supplier SKUs absent from the catalog map.
C7_ExactJoin ==
    (pc = "updating" \/ (pc = "done" /\ idx > 0)) =>
        /\ Len(updates) = Cardinality(Matched)
        /\ {updates[i] : i \in 1..Len(updates)} =
              {[inventoryItemId |-> Get(product_map, k),
                locationId |-> TARGET_LOCATION_ID(variant),
                quantity |-> Get(inventory_map, k)] : k \in Matched}
        /\ unmatched(product_map, inventory_map) = Keys(inventory_map) \ Keys(product_map)

\* C8: every entry of the catalog map is an item read from a page that is
\* tracked and carries a non-empty SKU.
C8_OnlyTracked ==
    \A k \in Keys(product_map) :
        \E it \in seenItems :
            /\ it.id = Get(product_map, k)
            /\ it.tracked /\ HasSku(it)

\* C9: the pager asks for a page only while the last page had more, stops
\* after the first page that has no more, and its map then holds exactly the
\* eligible (tracked, with a non-empty SKU) items of the pages read.
C9_Pagination ==
    /\ pc = "paging" => has_next_page
    /\ (pc \in {"fetching", "reconcile", "updating", "done"} /\ ~nullLocation) =>
          /\ ~has_next_page
          /\ Keys(product_map) =
                {strip(it.sku.str) :
                    it \in {x \in seenItems : x.tracked /\ HasSku(x)}}

\* C10: every key of the quantity mapping of the chunked fetchers is the
\* trimmed SKU field of an item that carried a SKU and a quantity.
C10_KeysFromItems ==
    variant # "motovan" =>
        \A k \in Keys(inventory_map) : \E e \in allEntries : e[3] /\ e[1] = k

\* C11: a supplier chunk that fails (bad status, malformed payload, an error
\* raised while its payload is processed, transport exception) leaves the
\* quantity mapping of the chunked fetchers as it was before the chunk.
C11_FailedChunkNoEffect ==
    [][(variant # "motovan" /\ idx' = idx + 1 /\ chunkFailed')
          => inventory_map' = inventory_map]_vars

\* The batches the updater cuts the update sequence into.
NumBatches == (Len(updates) + BATCH_SIZE - 1) \div BATCH_SIZE

\* C12: the batches are submitted in order and without a gap, one result is
\* reported per batch, and whatever the results were, the updater has
\* submitted every batch of the update sequence when it ends.
C12_BatchIsolation ==
    /\ Len(results) = sent
    /\ 0..(sent - 1) \subseteq writes
    /\ writes \subseteq 0..sent
    /\ writes \subseteq 0..(NumBatches - 1)
    /\ (pc = "done" /\ updates # <<>>) => writes = 0..(NumBatches - 1)

\* Of two batches the first failed and the second was submitted all the same.
C12_Witness ==
    /\ pc = "done"
    /\ NumBatches = 2
    /\ results = <<"failed", "success">>
    /\ writes = {0, 1}

\* The records of the batches the catalog applied that are for item i.
AppliedRecords(i) ==
    {updates[j] : j \in {n \in 1..Len(updates) :
                           /\ updates[n].inventoryItemId = i
                           /\ ((n - 1) \div BATCH_SIZE) \in applied}}

\* C13: whatever the quantities were when the run began, and whether the
\* catalog applied a batch once or more than once, an item of an applied batch
\* holds its record's quantity and every other item the quantity it began with.
C13_AbsoluteOverwrite ==
    \A i \in ItemIds :
        IF AppliedRecords(i) = {}
        THEN Quantity(stock, i) = StartQuantity(i)
        ELSE \A u \in AppliedRecords(i) : Quantity(stock, i) = u.quantity

\* A batch was applied twice (resubmitted after a throttle signal) and an item
\* that began with 3 holds its record's quantity 1.
C13_Witness ==
    /\ pc = "done"
    /\ reapplied = {0}
    /\ \E i \in ItemIds :
         AppliedRecords(i) # {} /\ StartQuantity(i) = 3 /\ Quantity(stock, i) = 1

\* The main() loop has built the update sequence.
Joined == pc = "updating" \/ (pc = "done" /\ idx > 0)

\* C14: a quantity of 0 is kept at every stage.  A valid entry with quantity
\* 0 returned by a chunk that succeeded is in the mapping (as 0, unless the
\* supplier returned another quantity under the same key); a SKU of both maps
\* whose quantity is 0 has its update record with quantity 0; and when the
\* updater ends, every record with quantity 0 was sent in a batch.
C14_ZeroIsSent ==
    /\ \A e \in okEntries :
         e[2] = 0 =>
            /\ Has(inventory_map, e[1])
            /\ \/ Get(inventory_map, e[1]) = 0
               \/ \E f \in allEntries : f[1] = e[1] /\ f[2] # 0
    /\ Joined =>
         \A k \in Matched :
            Get(inventory_map, k) = 0 =>
               \E j \in 1..Len(updates) :
                  /\ updates[j].inventoryItemId = Get(product_map, k)
                  /\ updates[j].quantity = 0
    /\ (pc = "done" /\ updates # <<>>) =>
         \A j \in 1..Len(updates) :
            updates[j].quantity = 0 =>
               \E n \in writes : \E m \in 1..Len(batch_of(updates, n)) :
                  batch_of(updates, n)[m] = updates[j]

\* The Thibault supplier returned 0 for SKU A of the catalog map, and the
\* catalog applied the write: item 1, which began with 1, holds 0.
C14_Witness ==
    /\ variant = "thibault"
    /\ pc = "done"
    /\ <<<<"A">>, 0>> \in okEntries
    /\ Len(updates) = 1
    /\ updates[1].inventoryItemId = 1
    /\ updates[1].quantity = 0
    /\ applied = {0}
    /\ StartQuantity(1) = 1
    /\ Quantity(stock, 1) = 0

\* C15: when the pager has returned an empty map the run has ended, and it
\* has made no supplier request and no catalog write.
C15_EmptyCatalogEnds ==
    (pc # "paging" /\ product_map = <<>>) =>
        /\ pc \in {"done", "aborted"}
        /\ call \in {"none", "page"}
        /\ idx = 0
        /\ writes = {}
        /\ results = <<>>

\* The pager has read a page of one item that is not eligible and has
\* returned the empty map: the run is over.
C15_Witness ==
    /\ pc = "done"
    /\ exc = "none"
    /\ ~nullLocation
    /\ cursor = 1
    /\ product_map = <<>>
    /\ call = "page"

\* C16: when a chunked fetcher returns it has made one request per chunk;
\* the chunks number the list's length over 50, rounded up; each holds at most
\* 50 SKUs and each but the last exactly 50; and the i-th SKU of the list is in
\* one chunk only, the chunks holding the list's SKUs in the list's order.
C16_ChunkPartition ==
    (variant # "motovan" /\ pc = "reconcile") =>
        LET sku_list == KeyList(product_map)
            n == Len(sku_list)
            c == Len(requested)
        IN  /\ idx = c
            /\ c * CHUNK_SIZE >= n
            /\ (c - 1) * CHUNK_SIZE < n
            /\ \A k \in 1..c :
                 /\ Len(requested[k]) <= CHUNK_SIZE
                 /\ k < c => Len(requested[k]) = CHUNK_SIZE
            /\ (c - 1) * CHUNK_SIZE + Len(requested[c]) = n
            /\ \A i \in 1..n :
                 requested[((i - 1) \div CHUNK_SIZE) + 1][((i - 1) % CHUNK_SIZE) + 1]
                    = sku_list[i]

\* A list of two full chunks has been fetched in two requests of 50 SKUs.
C16_Witness ==
    /\ pc = "reconcile"
    /\ Len(product_map) = 2 * CHUNK_SIZE
    /\ Len(requested) = 2
    /\ Len(requested[1]) = CHUNK_SIZE
    /\ Len(requested[2]) = CHUNK_SIZE
    /\ requested[2][CHUNK_SIZE] = BigSku(2 * CHUNK_SIZE)

\* The join has just been made: no write request has been made yet.
JustJoined == (pc = "updating" /\ writes = {}) \/ (pc = "done" /\ idx > 0 /\ updates = <<>>)

\* The trimmed SKUs of the eligible catalog items read.
CatalogKeys == {Trim(c.sku.str) : c \in {x \in seenItems : eligible(variant, x)}}

\* The trimmed SKUs the supplier returned with an integer quantity.
SupplierKeys == {Trim(s) : s \in rawSkus}

\* C17: in the chunked scripts, when the join has been made, (a) a SKU of an
\* eligible catalog item and a SKU a succeeding chunk returned that differ only
\* in the whitespace around them are one key, for which there is exactly one
\* update record, and (b) every update record is for a catalog item whose SKU
\* differs from a SKU the supplier returned in nothing but the whitespace
\* around it (a record made from a supplier item without a SKU field aside).
C17_SameKeyIffTrimmedEqual ==
    (variant # "motovan" /\ JustJoined) =>
        /\ \A k \in (CatalogKeys \cap SupplierKeys) \cap {e[1] : e \in okEntries} :
              /\ Has(product_map, k)
              /\ LET id == Get(product_map, k) IN
                 Cardinality({j \in 1..Len(updates) : updates[j].inventoryItemId = id}) = 1
        /\ LET returned == SupplierKeys \cup {e[1] : e \in {f \in allEntries : ~f[3]}} IN
           \A j \in 1..Len(updates) :
              \E c \in seenItems :
                 /\ c.id = updates[j].inventoryItemId
                 /\ Trim(c.sku.str) \in returned

\* The catalog returned the SKU ' A ' and the supplier 'A': one update record,
\* for the catalog's item.
C17_Witness ==
    /\ variant = "thibault"
    /\ JustJoined
    /\ seenItems = {Item(2, TRUE, TRUE, Str(<<" ", "A", " ">>))}
    /\ rawSkus = {<<"A">>}
    /\ Len(updates) = 1
    /\ updates[1].inventoryItemId = 2

\* The pager has left its loop: the last page it read had no next page, or
\* the response had no location.
PagerReturned == ~has_next_page \/ nullLocation

\* C18: the phases of a run follow each other.  A page is read only before
\* any supplier request and any write; a supplier request is made only when
\* the pager has returned and before any write; a write is made only when the
\* pager has returned and every supplier chunk has been requested.
C18_PhasesOrdered ==
    [][/\ call' = "page" => (requested = <<>> /\ writes = {})
       /\ call' = "supplier" => (PagerReturned /\ writes = {})
       /\ call' = "write" =>
             (PagerReturned /\ Len(requested) = Requests(variant, product_map))]_vars

\* A run of one page, three supplier chunks and two write batches has ended.
C18_Witness ==
    /\ pc = "done"
    /\ cursor = 1
    /\ Len(requested) = 3
    /\ writes = {0, 1}
    /\ call = "write"

\* C19: while the update sequence is empty, also after a join that matched
\* nothing, no write request is made and no batch is reported.
C19_NoWriteOnEmpty ==
    updates = <<>> =>
        /\ writes = {}
        /\ sent = 0
        /\ results = <<>>
        /\ call # "write"
        /\ pc # "updating"

\* The supplier returned a quantity, no SKU of it is in the catalog map, and
\* the run has ended after the join.
C19_Witness ==
    /\ pc = "done"
    /\ idx > 0
    /\ inventory_map # <<>>
    /\ Matched = {}
    /\ updates = <<>>
    /\ call = "none"

\* C20: a batch is reported as succeeded only on a response that held the
\* result of the write with no user errors and no top-level errors.
C20_SuccessMeansClean ==
    \A i \in 1..Len(results) : results[i] = "success" => answers[i]

\* The pager has just returned its map to main().
PagerJustReturned == pc = "fetching" /\ idx = 0

====
